---- MODULE Spec2Model ----
(***************************************************************************)
(* Model of pages/api_interceptor.py: the APIInterceptor class, which      *)
(* records the requests and responses of intercepted network calls in two  *)
(* lists and answers queries and validations over them.                    *)
(*                                                                         *)
(* Text (urls, url substrings, parameter names and values, JSON keys) is   *)
(* modelled as sequences of one-character strings, so that Python's        *)
(* `sub in text` is real substring containment and f"{param}={value}" is   *)
(* real formatting followed by concatenation.                              *)
(*                                                                         *)
(* The handler _handle_route is split at the points where the sync         *)
(* browser API hands control back to its dispatcher (route.fetch() and     *)
(* response.text()): between those points the Python code runs without     *)
(* interruption, at those points another handler invocation or the test's  *)
(* own calls (queries, clear_history) may run.                             *)
(***************************************************************************)
EXTENDS Integers, Sequences, FiniteSets, TLC

\* Number of intercepted network calls (invocations of _handle_route).
MaxCalls == 2

Handlers == 1..MaxCalls

VARIABLES
    requests,    \* self.requests: list of request_data dicts
    responses,   \* self.responses: list of response_data dicts
    clock,       \* the value the next _get_timestamp() call returns
    pc,          \* position of each handler invocation
    hreq,        \* local `request` of each running invocation (<<>> when it has none)
    hresp,       \* local `response` of each running invocation (<<>> when it has none)
    fulfilled,   \* per invocation, one flag per route.fulfill() call: was it given the fetched response
    trace,       \* history: the steps each invocation has taken, in order
    reqHist,     \* history: the requests captured since the last clear, in capture order, and by which invocation
    respHist,    \* history: the responses captured since the last clear, in capture order, and by which invocation
    cleared,     \* history: clear_history() ran and nothing was captured since
    call         \* the operation that ran last

vars == <<requests, responses, clock, pc, hreq, hresp, fulfilled, trace,
          reqHist, respHist, cleared, call>>

-----------------------------------------------------------------------------
(* Text *)

\* Python `sub in text` on str: some slice of text equals sub.
Contains(sub, text) ==
    \E i \in 0..(Len(text) - Len(sub)) : SubSeq(text, i + 1, i + Len(sub)) = sub

DigitChars == <<"0", "1", "2", "3", "4", "5", "6", "7", "8", "9">>

RECURSIVE IntToText(_)
\* str(n) for a non-negative int.
IntToText(n) ==
    IF n < 10 THEN <<DigitChars[n + 1]>>
    ELSE IntToText(n \div 10) \o <<DigitChars[(n % 10) + 1]>>

\* A parameter value is a str or an int (Dict[str, Any]).
StrVal(s) == [t |-> "str", s |-> s, n |-> 0]
IntVal(n) == [t |-> "int", s |-> <<>>, n |-> n]

\* format(value, "") as the f-string applies it.
FormatValue(v) == IF v.t = "str" THEN v.s ELSE IntToText(v.n)

\* f"{param}={value}"
FormatParam(param, value) == param \o <<"=">> \o FormatValue(value)

-----------------------------------------------------------------------------
(* The traffic the browser can produce *)

\* Short forms of .../discover?type=movie and .../discover?year=20
UrlDiscoverMovie == <<"d", "?", "t", "=", "m">>
UrlDiscoverYear  == <<"d", "?", "y", "=", "2", "0">>

\* route.request: url, method, headers, post_data
RouteRequests ==
    { [url |-> UrlDiscoverMovie, method |-> "GET",  headers |-> {<<"accept", "json">>}, post_data |-> <<>>],
      [url |-> UrlDiscoverYear,  method |-> "POST", headers |-> {}, post_data |-> <<"q=1">>] }

BodyObject  == "{\"results\": [], \"page\": 1}"
BodyArray   == "[\"results\"]"
BodyString  == "\"results\""
BodyNumber  == "5"
BodyNull    == "null"
BodyNotJson == "not json"

\* What route.fetch() can return: status, status_text, headers and the text
\* that response.text() yields when it can be read.
FetchedResponses ==
    { [status |-> 200, status_text |-> "OK",        headers |-> {<<"content-type", "json">>}, text |-> BodyObject],
      [status |-> 200, status_text |-> "OK",        headers |-> {<<"content-type", "json">>}, text |-> BodyNumber],
      [status |-> 404, status_text |-> "Not Found", headers |-> {}, text |-> BodyNotJson] }

-----------------------------------------------------------------------------
(* _handle_route *)

\* _get_timestamp(): the clock reading; the clock moves on between readings.
get_timestamp == clock

request_data(request, ts) ==
    [url |-> request.url, method |-> request.method, headers |-> request.headers,
     post_data |-> request.post_data, timestamp |-> ts]

response_data(request, response, body, ts) ==
    [url |-> request.url, status |-> response.status, status_text |-> response.status_text,
     headers |-> response.headers, body |-> body, timestamp |-> ts]

\* Mutation of Fulfill: the call is fulfilled with an altered response.
FulfillAltered(h, response) ==
    fulfilled' = [fulfilled EXCEPT ![h] = Append(@, [response EXCEPT !.status = 500] = hresp[h][1])]

\* route.fulfill(response=response): the page receives `response`; the model
\* keeps whether it is the very response route.fetch() gave this invocation.
Fulfill(h, response) ==
    fulfilled' = [fulfilled EXCEPT ![h] = Append(@, response = hresp[h][1])]

\* The invocation is over (it returned, or an exception left it): its
\* locals are gone.
Leave(h, how) ==
    /\ pc' = [pc EXCEPT ![h] = how]
    /\ hreq' = [hreq EXCEPT ![h] = <<>>]
    /\ hresp' = [hresp EXCEPT ![h] = <<>>]

\* Lines 37-51: capture the request, then call route.fetch() and wait for it.
HandleRouteBegin(h, request) ==
    /\ pc[h] = "idle"
    /\ \A g \in Handlers : g < h => pc[g] # "idle"
    /\ requests' = Append(requests, request_data(request, get_timestamp))
    /\ clock' = clock + 1
    /\ hreq' = [hreq EXCEPT ![h] = <<request>>]
    /\ pc' = [pc EXCEPT ![h] = "fetch"]
    /\ trace' = [trace EXCEPT ![h] = @ \o <<"request_appended", "fetch_called">>]
    /\ reqHist' = Append(reqHist, [by |-> h, request |-> request])
    /\ cleared' = FALSE
    /\ call' = "_handle_route"
    /\ UNCHANGED <<responses, hresp, fulfilled, respHist>>

\* Line 51 returns; line 55 calls response.text() and waits for it.
FetchReturns(h, response) ==
    /\ pc[h] = "fetch"
    /\ hresp' = [hresp EXCEPT ![h] = <<response>>]
    /\ pc' = [pc EXCEPT ![h] = "text"]
    /\ trace' = [trace EXCEPT ![h] = @ \o <<"fetch_returned">>]
    /\ call' = "_handle_route"
    /\ UNCHANGED <<requests, responses, clock, hreq, fulfilled, reqHist, respHist, cleared>>

\* Line 51 raises (the network call failed, the page closed): nothing in
\* _handle_route catches it, so the exception leaves the handler there.
FetchRaises(h) ==
    /\ pc[h] = "fetch"
    /\ Leave(h, "raised")
    /\ trace' = [trace EXCEPT ![h] = @ \o <<"fetch_raised">>]
    /\ call' = "_handle_route"
    /\ UNCHANGED <<requests, responses, clock, fulfilled, reqHist, respHist, cleared>>

\* Lines 55-65 and 70: the body was read; record the response, then fulfill.
TextReturns(h) ==
    /\ pc[h] = "text"
    /\ LET request == hreq[h][1]
           response == hresp[h][1]
           body == response.text
       IN  /\ responses' = Append(responses, response_data(request, response, body, get_timestamp))
           /\ respHist' = Append(respHist, [by |-> h, request |-> request, response |-> response])
           /\ Fulfill(h, response)
    /\ clock' = clock + 1
    /\ Leave(h, "returned")
    /\ trace' = [trace EXCEPT ![h] = @ \o <<"response_appended", "fulfilled">>]
    /\ cleared' = FALSE
    /\ call' = "_handle_route"
    /\ UNCHANGED <<requests, reqHist>>

\* Mutation of TextRaises: no try/except around the capture, so the failure
\* of response.text() leaves the handler and the call is never fulfilled.
TextRaisesUncaught(h) ==
    /\ pc[h] = "text"
    /\ Leave(h, "raised")
    /\ trace' = [trace EXCEPT ![h] = @ \o <<"text_raised">>]
    /\ call' = "_handle_route"
    /\ UNCHANGED <<requests, responses, clock, fulfilled, reqHist, respHist, cleared>>

\* Lines 55, 66-67 and 70: response.text() raised; log the error, then fulfill.
TextRaises(h) ==
    /\ pc[h] = "text"
    /\ Fulfill(h, hresp[h][1])
    /\ Leave(h, "returned")
    /\ trace' = [trace EXCEPT ![h] = @ \o <<"text_raised", "fulfilled">>]
    /\ call' = "_handle_route"
    /\ UNCHANGED <<requests, responses, clock, reqHist, respHist, cleared>>

\* Mutation of clear_history: only the requests list is cleared.
clear_history_requests_only ==
    /\ requests' = <<>>
    /\ UNCHANGED responses
    /\ reqHist' = <<>>
    /\ UNCHANGED respHist
    /\ cleared' = TRUE
    /\ call' = "clear_history"
    /\ UNCHANGED <<clock, pc, hreq, hresp, fulfilled, trace>>

\* Lines 197-201.
clear_history ==
    /\ requests' = <<>>
    /\ responses' = <<>>
    /\ reqHist' = <<>>
    /\ respHist' = <<>>
    /\ cleared' = TRUE
    /\ call' = "clear_history"
    /\ UNCHANGED <<clock, pc, hreq, hresp, fulfilled, trace>>

-----------------------------------------------------------------------------
(* Queries: pure readers of the two lists *)

\* Optional[str]: <<>> is None, <<s>> is the str s.
None == <<>>
Some(x) == <<x>>

\* `if filter_url:` is false for None and for the empty str.
Truthy(filter_url) == filter_url # None /\ filter_url[1] # <<>>

RECURSIVE ComprehensionReversed(_, _)
\* Mutation of Comprehension: the matching entries come out newest first.
ComprehensionReversed(log, sub) ==
    IF log = <<>> THEN <<>>
    ELSE IF Contains(sub, Head(log).url)
         THEN ComprehensionReversed(Tail(log), sub) \o <<Head(log)>>
         ELSE ComprehensionReversed(Tail(log), sub)

RECURSIVE Comprehension(_, _)
\* [e for e in log if filter_url in e["url"]]
Comprehension(log, sub) ==
    IF log = <<>> THEN <<>>
    ELSE IF Contains(sub, Head(log).url)
         THEN <<Head(log)>> \o Comprehension(Tail(log), sub)
         ELSE Comprehension(Tail(log), sub)

\* Lines 72-84.
get_requests(filter_url) ==
    IF Truthy(filter_url) THEN Comprehension(requests, filter_url[1]) ELSE requests

\* Lines 86-98.
get_responses(filter_url) ==
    IF Truthy(filter_url) THEN Comprehension(responses, filter_url[1]) ELSE responses

\* Lines 100-102.
get_last_request == IF requests # <<>> THEN Some(requests[Len(requests)]) ELSE None

\* Lines 104-106.
get_last_response == IF responses # <<>> THEN Some(responses[Len(responses)]) ELSE None

\* What a call does: it returns a bool, or an exception leaves it.
Returns(b) == IF b THEN "True" ELSE "False"
TypeError == "TypeError"

RECURSIVE ParamsLoop(_, _)
\* Lines 128-134: the loop over expected_params.items(), in dict order.
ParamsLoop(items, url) ==
    IF items = <<>> THEN TRUE
    ELSE IF ~Contains(FormatParam(Head(items)[1], Head(items)[2]), url) THEN FALSE
         ELSE ParamsLoop(Tail(items), url)

\* Mutation of validate_request_contains: the first matching request is
\* checked instead of the last.
validate_request_contains_first(url_substring, expected_params) ==
    LET matching_requests == get_requests(Some(url_substring))
    IN  IF matching_requests = <<>> THEN Returns(FALSE)
        ELSE Returns(ParamsLoop(expected_params, matching_requests[1].url))

\* Lines 108-134.
validate_request_contains(url_substring, expected_params) ==
    LET matching_requests == get_requests(Some(url_substring))
    IN  IF matching_requests = <<>> THEN Returns(FALSE)
        ELSE Returns(ParamsLoop(expected_params,
                                matching_requests[Len(matching_requests)].url))

\* Mutation of validate_response_status: the first matching response is
\* checked instead of the last.
validate_response_status_first(url_substring, expected_status) ==
    LET matching_responses == get_responses(Some(url_substring))
    IN  IF matching_responses = <<>> THEN Returns(FALSE)
        ELSE Returns(matching_responses[1].status = expected_status)

\* Lines 136-161.
validate_response_status(url_substring, expected_status) ==
    LET matching_responses == get_responses(Some(url_substring))
    IN  IF matching_responses = <<>> THEN Returns(FALSE)
        ELSE LET actual_status == matching_responses[Len(matching_responses)].status
             IN  IF actual_status # expected_status THEN Returns(FALSE) ELSE Returns(TRUE)

KeyResults    == <<"r", "e", "s", "u", "l", "t", "s">>
KeyPage       == <<"p", "a", "g", "e">>
KeyTotalPages == <<"t", "o", "t", "a", "l", "_", "p", "a", "g", "e", "s">>

JsonValue(kind, members, text) == [ok |-> TRUE, kind |-> kind, members |-> members, text |-> text]
JSONDecodeError == [ok |-> FALSE, kind |-> "error", members |-> {}, text |-> <<>>]

\* json.loads on the bodies the model's traffic carries: a dict with its
\* keys, a list with its elements, a str, an int, None, or JSONDecodeError.
json_loads(body) ==
    CASE body = BodyObject -> JsonValue("dict", {KeyResults, KeyPage}, <<>>)
      [] body = BodyArray  -> JsonValue("list", {KeyResults}, <<>>)
      [] body = BodyString -> JsonValue("str", {}, KeyResults)
      [] body = BodyNumber -> JsonValue("int", {}, <<>>)
      [] body = BodyNull   -> JsonValue("NoneType", {}, <<>>)
      [] OTHER             -> JSONDecodeError

\* `key in response_json` for a str key: dict keys, list elements, substring
\* of a str; an int, a bool or None is not a container and raises TypeError.
KeyIn(key, json) ==
    CASE json.kind = "dict" -> Returns(key \in json.members)
      [] json.kind = "list" -> Returns(key \in json.members)
      [] json.kind = "str"  -> Returns(Contains(key, json.text))
      [] OTHER              -> TypeError

RECURSIVE KeysLoop(_, _)
\* Lines 185-191: the loop over expected_keys.
KeysLoop(keys, json) ==
    IF keys = <<>> THEN Returns(TRUE)
    ELSE LET in == KeyIn(Head(keys), json)
         IN  IF in = TypeError THEN TypeError
             ELSE IF in = "False" THEN Returns(FALSE)
             ELSE KeysLoop(Tail(keys), json)

\* Lines 163-195: only json.JSONDecodeError is caught.
validate_response_json_schema(url_substring, expected_keys) ==
    LET matching_responses == get_responses(Some(url_substring))
    IN  IF matching_responses = <<>> THEN Returns(FALSE)
        ELSE LET last_response == matching_responses[Len(matching_responses)]
                 response_json == json_loads(last_response.body)
             IN  IF ~response_json.ok THEN Returns(FALSE)
                 ELSE KeysLoop(expected_keys, response_json)

-----------------------------------------------------------------------------
(* The calls a test makes *)

\* url substrings: "d" is in both urls, "=m" in one, "z" in none, "" in all.
Substrings == {<<"d">>, <<"=", "m">>, <<"z">>, <<>>}
Filters == {None} \cup {Some(s) : s \in Substrings}

\* expected_params dicts, as their items() in order.
ParamDicts ==
    { <<>>,
      << <<<<"t">>, StrVal(<<"m">>)>> >>,
      << <<<<"y">>, IntVal(20)>> >>,
      << <<<<"t">>, StrVal(<<"m">>)>>, <<<<"y">>, IntVal(20)>> >> }

Statuses == {200, 404}

KeyLists == {<<>>, <<KeyResults>>, <<KeyResults, KeyPage>>, <<KeyTotalPages>>}

\* A query or validation call: it reads the lists and returns; the model
\* records which operation ran last.
Frame == UNCHANGED <<clock, pc, hreq, hresp, fulfilled, trace, reqHist, respHist, cleared>>

GetRequests ==
    /\ call' = "get_requests"
    /\ UNCHANGED <<requests, responses>>
    /\ Frame

GetResponses ==
    /\ call' = "get_responses"
    /\ UNCHANGED <<requests, responses>>
    /\ Frame

\* Mutation of GetLastRequest: the entry is popped off the list (requests.pop()).
GetLastRequestPops ==
    /\ call' = "get_last_request"
    /\ requests' = IF requests = <<>> THEN requests ELSE SubSeq(requests, 1, Len(requests) - 1)
    /\ UNCHANGED responses
    /\ Frame

GetLastRequest ==
    /\ call' = "get_last_request"
    /\ UNCHANGED <<requests, responses>>
    /\ Frame

GetLastResponse ==
    /\ call' = "get_last_response"
    /\ UNCHANGED <<requests, responses>>
    /\ Frame

ValidateRequestContains ==
    /\ call' = "validate_request_contains"
    /\ UNCHANGED <<requests, responses>>
    /\ Frame

ValidateResponseStatus ==
    /\ call' = "validate_response_status"
    /\ UNCHANGED <<requests, responses>>
    /\ Frame

ValidateResponseJsonSchema ==
    /\ call' = "validate_response_json_schema"
    /\ UNCHANGED <<requests, responses>>
    /\ Frame

-----------------------------------------------------------------------------

Init ==
    /\ requests = <<>>
    /\ responses = <<>>
    /\ clock = 0
    /\ pc = [h \in Handlers |-> "idle"]
    /\ hreq = [h \in Handlers |-> <<>>]
    /\ hresp = [h \in Handlers |-> <<>>]
    /\ fulfilled = [h \in Handlers |-> <<>>]
    /\ trace = [h \in Handlers |-> <<>>]
    /\ reqHist = <<>>
    /\ respHist = <<>>
    /\ cleared = FALSE
    /\ call = "__init__"

Next ==
    \/ \E h \in Handlers, request \in RouteRequests : HandleRouteBegin(h, request)
    \/ \E h \in Handlers, response \in FetchedResponses : FetchReturns(h, response)
    \/ \E h \in Handlers : FetchRaises(h)
    \/ \E h \in Handlers : TextReturns(h)
    \/ \E h \in Handlers : TextRaises(h)
    \/ clear_history
    \/ GetRequests
    \/ GetResponses
    \/ GetLastRequest
    \/ GetLastResponse
    \/ ValidateRequestContains
    \/ ValidateResponseStatus
    \/ ValidateResponseJsonSchema

Spec == Init /\ [][Next]_vars

-----------------------------------------------------------------------------
(* Vocabulary of the properties *)

QueryOps ==
    {"get_requests", "get_responses", "get_last_request", "get_last_response",
     "validate_request_contains", "validate_response_status",
     "validate_response_json_schema"}

\* The positions of the entries of log whose url contains sub.
MatchingAt(log, sub) == {i \in DOMAIN log : Contains(sub, log[i].url)}

Last(S) == CHOOSE i \in S : \A j \in S : j <= i

\* The entry is the request_data of this route.request, whatever its timestamp.
IsEntryOfRequest(entry, request) ==
    /\ entry.url = request.url
    /\ entry.method = request.method
    /\ entry.headers = request.headers
    /\ entry.post_data = request.post_data

\* The entry is the response_data of this exchange, whatever its timestamp.
IsEntryOfResponse(entry, request, response) ==
    /\ entry.url = request.url
    /\ entry.status = response.status
    /\ entry.status_text = response.status_text
    /\ entry.headers = response.headers
    /\ entry.body = response.text

\* out holds exactly the entries of log whose url contains sub, in log order.
IsFilteredBy(out, log, sub) ==
    /\ Len(out) = Cardinality(MatchingAt(log, sub))
    /\ \E at \in [DOMAIN out -> MatchingAt(log, sub)] :
          /\ \A k \in DOMAIN out : out[k] = log[at[k]]
          /\ \A k, l \in DOMAIN out : k < l => at[k] < at[l]

\* The steps of one invocation, in the order the claim gives them.
StepsRecorded == <<"request_appended", "fetch_called", "fetch_returned", "response_appended", "fulfilled">>
StepsUnreadable == <<"request_appended", "fetch_called", "fetch_returned", "text_raised", "fulfilled">>
StepsFetchFailed == <<"request_appended", "fetch_called", "fetch_raised">>

IsPrefix(s, t) == Len(s) <= Len(t) /\ SubSeq(t, 1, Len(s)) = s

Occurs(x, s) == \E i \in DOMAIN s : s[i] = x

\* The literal param=value texts of each expected_params dict, written out.
LiteralPairs(d) ==
    {<<"t", "=", "m">> : i \in {j \in DOMAIN d : d[j][1] = <<"t">>}}
    \cup {<<"y", "=", "2", "0">> : i \in {j \in DOMAIN d : d[j][1] = <<"y">>}}

\* The bodies that are a JSON object, and the top-level keys of each.
IsJsonObject(body) == body = BodyObject
TopLevelKeys(body) == IF body = BodyObject THEN {KeyResults, KeyPage} ELSE {}

-----------------------------------------------------------------------------
(* C1 *)

\* The step in which invocation h learns that response.text() failed.
TextFailedStep(h) == pc[h] = "text" /\ pc'[h] # "text" /\ Occurs("text_raised", trace'[h])

-----------------------------------------------------------------------------
(* C2 *)

\* C2: validate_response_json_schema returns False when no response matches,
\* returns False when the body of the most recent matching response is not a
\* JSON object, and otherwise returns True exactly when every expected key is
\* a top-level key of that object.
C2_JsonSchemaObjectOnly ==
    call = "validate_response_json_schema" =>
    \A s \in Substrings, ks \in KeyLists :
        LET at == MatchingAt(responses, s)
            got == validate_response_json_schema(s, ks)
        IN  IF at = {} THEN got = "False"
            ELSE LET body == responses[Last(at)].body
                 IN  IF ~IsJsonObject(body) THEN got = "False"
                     ELSE got = Returns(\A k \in DOMAIN ks : ks[k] \in TopLevelKeys(body))

-----------------------------------------------------------------------------
(* C3 *)

\* C3: every validation operation returns a bool for every content of the
\* logs and every argument; none of them raises.
C3_ValidationsNeverRaise ==
    /\ call = "validate_request_contains" =>
          \A s \in Substrings, d \in ParamDicts :
              validate_request_contains(s, d) \in {"True", "False"}
    /\ call = "validate_response_status" =>
          \A s \in Substrings, st \in Statuses :
              validate_response_status(s, st) \in {"True", "False"}
    /\ call = "validate_response_json_schema" =>
          \A s \in Substrings, ks \in KeyLists :
              validate_response_json_schema(s, ks) \in {"True", "False"}

-----------------------------------------------------------------------------
(* C4 *)

\* C4: validate_request_contains returns False when no request matches;
\* otherwise its result depends on the most recent matching request alone: it
\* is True exactly when every literal param=value text occurs in that
\* request's url.
C4_RequestContainsLastMatch ==
    call = "validate_request_contains" =>
    \A s \in Substrings, d \in ParamDicts :
        LET at == MatchingAt(requests, s)
            got == validate_request_contains(s, d)
        IN  IF at = {} THEN got = "False"
            ELSE got = Returns(\A lit \in LiteralPairs(d) :
                                   Contains(lit, requests[Last(at)].url))

\* Two requests match "d"; the earlier one carries t=m, the last one does not.
C4_Witness ==
    /\ call = "validate_request_contains"
    /\ Len(requests) >= 2
    /\ requests[Len(requests)].url = UrlDiscoverYear
    /\ requests[Len(requests) - 1].url = UrlDiscoverMovie
    /\ validate_request_contains(<<"d">>, << <<<<"t">>, StrVal(<<"m">>)>> >>) = "False"
    /\ validate_request_contains(<<"d">>, << <<<<"y">>, IntVal(20)>> >>) = "True"

-----------------------------------------------------------------------------
(* C5 *)

\* C5: validate_response_status returns False when no response matches;
\* otherwise it is True exactly when the status of the most recent matching
\* response equals the expected status, whatever earlier ones carried.
C5_ResponseStatusLastMatch ==
    call = "validate_response_status" =>
    \A s \in Substrings, st \in Statuses :
        LET at == MatchingAt(responses, s)
            got == validate_response_status(s, st)
        IN  IF at = {} THEN got = "False"
            ELSE got = Returns(responses[Last(at)].status = st)

\* Two responses match "d"; the earlier one is a 200, the last one a 404.
C5_Witness ==
    /\ call = "validate_response_status"
    /\ Len(responses) >= 2
    /\ responses[Len(responses)].status = 404
    /\ responses[Len(responses) - 1].status = 200
    /\ validate_response_status(<<"d">>, 404) = "True"
    /\ validate_response_status(<<"d">>, 200) = "False"

-----------------------------------------------------------------------------
(* C6 *)

\* C6: from clear_history() until the next capture both logs are empty:
\* the last-entry getters return None, the list getters return the empty list
\* for every filter and every validation returns False, as on a new recorder.
C6_ClearedIsEmpty ==
    cleared =>
        /\ requests = <<>>
        /\ responses = <<>>
        /\ get_last_request = None
        /\ get_last_response = None
        /\ \A f \in Filters : get_requests(f) = <<>> /\ get_responses(f) = <<>>
        /\ \A s \in Substrings, d \in ParamDicts : validate_request_contains(s, d) = "False"
        /\ \A s \in Substrings, st \in Statuses : validate_response_status(s, st) = "False"
        /\ \A s \in Substrings, ks \in KeyLists : validate_response_json_schema(s, ks) = "False"

\* A request and a response were captured, then the logs were cleared, then a
\* validation ran.
C6_Witness ==
    /\ cleared
    /\ call = "validate_response_json_schema"
    /\ \E h \in Handlers : trace[h] = StepsRecorded

-----------------------------------------------------------------------------
(* C7 *)

\* C7: a query or validation call changes neither log nor any other state
\* its result could depend on, so the same call made again right after it
\* reads the same state: the last-entry getters and the unfiltered list
\* getters return what they returned.
C7_QueriesChangeNothing ==
    [][call' \in QueryOps =>
          /\ requests' = requests
          /\ responses' = responses
          /\ UNCHANGED <<clock, pc, hreq, hresp, fulfilled, trace, reqHist, respHist, cleared>>
          /\ get_last_request' = get_last_request
          /\ get_last_response' = get_last_response
          /\ get_requests(None)' = get_requests(None)
          /\ get_responses(None)' = get_responses(None)]_vars

\* A query ran on logs that hold entries.
C7_Witness ==
    /\ call = "get_last_request"
    /\ Len(requests) >= 2
    /\ responses # <<>>

-----------------------------------------------------------------------------
(* C8 *)

\* C8: without a filter the list getters return every entry captured since
\* the last clear, in capture order; with a substring they return exactly the
\* entries whose url contains it, in log order; the last-entry getters return
\* the most recently captured entry (None when there is none).
C8_GettersReturnLogInOrder ==
    call \in {"get_requests", "get_responses", "get_last_request", "get_last_response"} =>
    /\ Len(get_requests(None)) = Len(reqHist)
    /\ \A i \in DOMAIN reqHist : IsEntryOfRequest(get_requests(None)[i], reqHist[i].request)
    /\ Len(get_responses(None)) = Len(respHist)
    /\ \A i \in DOMAIN respHist :
          IsEntryOfResponse(get_responses(None)[i], respHist[i].request, respHist[i].response)
    /\ \A s \in Substrings :
          /\ IsFilteredBy(get_requests(Some(s)), get_requests(None), s)
          /\ IsFilteredBy(get_responses(Some(s)), get_responses(None), s)
    /\ IF reqHist = <<>> THEN get_last_request = None
       ELSE /\ Len(get_last_request) = 1
            /\ get_last_request[1] = get_requests(None)[Len(reqHist)]
    /\ IF respHist = <<>> THEN get_last_response = None
       ELSE /\ Len(get_last_response) = 1
            /\ get_last_response[1] = get_responses(None)[Len(respHist)]

\* The log holds both urls, so the filter "=m" keeps a proper part of it.
C8_Witness ==
    /\ call = "get_requests"
    /\ Len(requests) >= 2
    /\ Len(get_requests(Some(<<"=", "m">>))) = 1
    /\ requests[1].url = UrlDiscoverYear
    /\ responses # <<>>

-----------------------------------------------------------------------------
(* C9 *)

\* C9: each invocation appends its request, then calls route.fetch(), then
\* (if the body can be read) appends the response, then fulfills; an
\* invocation whose fetch returned and which is over has fulfilled exactly
\* once, with the fetched response; no invocation fulfills more than once.
C9_HandlerStepOrder ==
    \A h \in Handlers :
        /\ \/ IsPrefix(trace[h], StepsRecorded)
           \/ IsPrefix(trace[h], StepsUnreadable)
           \/ IsPrefix(trace[h], StepsFetchFailed)
        /\ Len(fulfilled[h]) <= 1
        /\ (Occurs("fetch_returned", trace[h]) /\ pc[h] # "text") =>
               pc[h] = "returned" /\ fulfilled[h] = <<TRUE>>
        /\ ~Occurs("fetch_returned", trace[h]) => fulfilled[h] = <<>>
        /\ \A i \in DOMAIN reqHist, j \in DOMAIN respHist :
               (reqHist[i].by = h /\ respHist[j].by = h /\ i \in DOMAIN requests /\ j \in DOMAIN responses)
                   => requests[i].timestamp < responses[j].timestamp

C9_Witness ==
    \E h \in Handlers :
        /\ trace[h] = StepsRecorded
        /\ fulfilled[h] = <<TRUE>>
        /\ \E i \in DOMAIN reqHist, j \in DOMAIN respHist : reqHist[i].by = h /\ respHist[j].by = h

-----------------------------------------------------------------------------
(* C10 *)

\* C10: every entry of the responses log has an entry with the same url in
\* the requests log that was appended earlier, and the responses log is never
\* longer than the requests log.
C10_ResponsesNeverOutnumberRequests ==
    /\ Len(responses) <= Len(requests)
    /\ \A j \in DOMAIN responses :
          \E i \in DOMAIN requests :
              /\ requests[i].url = responses[j].url
              /\ requests[i].timestamp < responses[j].timestamp

====
